---- MODULE Spec2Model ----
(***************************************************************************)
(* Job lifecycle and coin ledger of MatrixAI_Server.                       *)
(*                                                                         *)
(* One owner (uid).  Every HTTP request is a process r \in Req; each       *)
(* `await` on the store (Supabase) or on an external API is one step, so   *)
(* requests and background routines interleave exactly where the event     *)
(* loop lets them.  A store call either is applied and returns no error,   *)
(* or is rejected and returns `error` (supabase-js does not throw); in a   *)
(* behaviour with `reliable` set the store applies every call.             *)
(***************************************************************************)
EXTENDS Integers, Sequences, FiniteSets, TLC

\* ---- bounds of the model ------------------------------------------------
MaxReq == 2                     \* number of submit / subtractCoins requests in
                                \* one behaviour
MaxOps == 1                     \* number of edit, remove and purchase requests
                                \* in one behaviour
MaxPollRounds == 2              \* maxPollingTime / pollingInterval (30 in the
                                \* source: 300000 ms at 10000 ms a round)
Req == 1..MaxReq

StartCoins == {1, 10, 30}       \* users.user_coins before the first request
PromptLengths == {0, 10, 1001}  \* promptText.length of a createVideo body
CoinAmounts == {0 - 3, 0, 4, 6} \* coinAmount of a direct subtractCoins body
Plans == {"Addon", "Monthly"}   \* plan of a BuySubscription body
PlanCoins == {10}               \* subscription_plans.coins of a plan

\* ---- program constants --------------------------------------------------
VideoRequiredCoins == 25
MaxPromptLength == 1000
MaxUrlLength == 255

NULL == "null"

Max(a, b) == IF a >= b THEN a ELSE b

\* A `duration` is the number n/d, written <<n, d>> with d > 0; the README
\* and test-new-apis.js give it in seconds (120, 30).  0 stands for a body
\* without the field as well: `!duration` holds of both.
AudioDurations == {<<0, 1>>, <<0 - 1, 1>>, <<9, 5>>, <<120, 1>>}

\* Math.ceil(n / d) for n >= 0
Ceil(n, d) == (n + d - 1) \div d

\* Math.max(2, Math.ceil(duration * 2))
requiredCoinsAudio(duration) == Max(2, Ceil(duration[1] * 2, duration[2]))

\* An audioUrl is what the handler looks at: its length and whether
\* `new URL(audioUrl)` accepts it.
GoodUrl == [length |-> 29, parses |-> TRUE]
AudioUrls == {[length |-> 0, parses |-> FALSE], [length |-> 9, parses |-> FALSE],
              GoodUrl, [length |-> 256, parses |-> TRUE]}

\* the bodies of uploadAudioUrl: every duration, and one defect at a time
AudioBodies ==
    {[uid |-> "u1", audioUrl |-> GoodUrl, duration |-> d] : d \in AudioDurations}
    \cup {[uid |-> "u1", audioUrl |-> u, duration |-> <<9, 5>>] : u \in AudioUrls}
    \cup {[uid |-> "", audioUrl |-> GoodUrl, duration |-> <<9, 5>>]}

\* the bodies of createVideo
VideoBodies ==
    {[uid |-> "u1", promptLength |-> n] : n \in PromptLengths}
    \cup {[uid |-> "", promptLength |-> 10]}

NoBody == [uid |-> ""]

VARIABLES
    reliable,          \* the store applies every call of this behaviour
    ops,               \* edit, remove and purchase requests received so far
    op,                \* the last of them: its handler, target and position
    user_coins,        \* users.user_coins of the owner
    start_coins,       \* the balance before the first request (history)
    user_transaction,  \* the user_transaction table, in insertion order
    audio_metadata,    \* audio_metadata row of the job created by request r
    video_metadata,    \* video_metadata row of the job created by request r
    kind,              \* which handler serves request r
    hpc,               \* position of the handler of request r
    body,              \* the request body, until the handler has validated it
    coinAmount,        \* coinAmount / requiredCoins of request r
    seen,              \* `user_coins` local of subtractCoins (the value read)
    resp,              \* the response the handler of r returned
    debited,           \* history: r's update of users.user_coins was applied
    rpc,               \* position of the background routine of r's job
    elapsed,           \* time the routine has waited for the external worker,
                       \* in units of pollingInterval (Date.now() - startTime)
    rerr,              \* the `error` caught at the top level of the routine
    statusResult       \* what the last checkVideoStatus of the routine gave

auxVars == <<ops, op>>
coinVars == <<reliable, user_coins, start_coins, user_transaction, debited>>
ledgerVars == <<coinVars, auxVars>>
storeVars == <<audio_metadata, video_metadata>>
handlerVars == <<kind, hpc, body, coinAmount, seen, resp>>
routineVars == <<rpc, elapsed, rerr, statusResult>>
vars == <<reliable, ops, op, user_coins, start_coins, user_transaction, audio_metadata,
          video_metadata, kind, hpc, body, coinAmount, seen, resp, debited,
          rpc, elapsed, rerr, statusResult>>

NoAudio == [status |-> "absent", transcription |-> NULL, error_message |-> NULL,
            audio_name |-> NULL, xml_data |-> NULL]
NoVideo == [status |-> "absent", video_url |-> NULL, error_message |-> NULL,
            task_id |-> NULL, task_status |-> NULL, prompt_text |-> NULL]

\* no edit, remove or purchase request is being served
NoOp == [name |-> "none", job |-> 0, pc |-> "done", seen |-> 0, plan |-> "none"]

\* the answers the store can give to a call: applied, or rejected
StoreAnswers == IF reliable THEN {TRUE} ELSE BOOLEAN

Init ==
    /\ reliable \in BOOLEAN
    /\ ops = 0
    /\ op = NoOp
    /\ user_coins \in StartCoins
    /\ start_coins = user_coins
    /\ user_transaction = <<>>
    /\ audio_metadata = [r \in Req |-> NoAudio]
    /\ video_metadata = [r \in Req |-> NoVideo]
    /\ kind = [r \in Req |-> "none"]
    /\ hpc = [r \in Req |-> "idle"]
    /\ body = [r \in Req |-> NoBody]
    /\ coinAmount = [r \in Req |-> 0]
    /\ seen = [r \in Req |-> 0]
    /\ resp = [r \in Req |-> "none"]
    /\ debited = [r \in Req |-> FALSE]
    /\ rpc = [r \in Req |-> "none"]
    /\ elapsed = [r \in Req |-> 0]
    /\ rerr = [r \in Req |-> NULL]
    /\ statusResult = [r \in Req |-> NULL]

\* the handler of r returns `answer`
Return(r, answer) ==
    /\ resp' = [resp EXCEPT ![r] = answer]
    /\ hpc' = [hpc EXCEPT ![r] = "done"]

\* ---- POST /api/audio/uploadAudioUrl ------------------------------------
\* await c.req.json(): the body of the request has arrived
uploadAudioUrl_request(r) ==
    /\ hpc[r] = "idle"
    /\ kind' = [kind EXCEPT ![r] = "audio"]
    /\ \E b \in AudioBodies : body' = [body EXCEPT ![r] = b]
    /\ hpc' = [hpc EXCEPT ![r] = "validate"]
    /\ UNCHANGED <<ledgerVars, storeVars, routineVars, coinAmount, seen, resp>>

\* the length test of audioUrl left out
ValidAudioBody_anyLength(b) ==
    /\ b.uid # "" /\ b.audioUrl.length # 0
    /\ b.duration[1] > 0
    /\ b.audioUrl.parses

\* validate input: uid and audioUrl present, duration present and positive,
\* audioUrl accepted by new URL() and at most MaxUrlLength long
ValidAudioBody(b) ==
    /\ b.uid # "" /\ b.audioUrl.length # 0
    /\ b.duration[1] > 0
    /\ b.audioUrl.parses
    /\ b.audioUrl.length <= MaxUrlLength

\* validation, then requiredCoins from the duration
uploadAudioUrl(r) ==
    /\ hpc[r] = "validate"
    /\ kind[r] = "audio"
    /\ IF ValidAudioBody(body[r])
         THEN /\ coinAmount' = [coinAmount EXCEPT ![r] = requiredCoinsAudio(body[r].duration)]
              /\ hpc' = [hpc EXCEPT ![r] = "check"]
              /\ UNCHANGED resp
         ELSE /\ Return(r, "validation_error")
              /\ UNCHANGED coinAmount
    /\ body' = [body EXCEPT ![r] = NoBody]
    /\ UNCHANGED <<ledgerVars, storeVars, routineVars, kind, seen>>

\* ---- POST /api/video/createVideo ---------------------------------------
\* await c.req.json(): the body of the request has arrived
createVideo_request(r) ==
    /\ hpc[r] = "idle"
    /\ kind' = [kind EXCEPT ![r] = "video"]
    /\ \E b \in VideoBodies : body' = [body EXCEPT ![r] = b]
    /\ hpc' = [hpc EXCEPT ![r] = "validate"]
    /\ UNCHANGED <<ledgerVars, storeVars, routineVars, coinAmount, seen, resp>>

\* uid and promptText are required
MissingVideoFields(b) == b.uid = "" \/ b.promptLength = 0

\* validate prompt text length
PromptTooLong(b) == b.promptLength > MaxPromptLength

\* validation: required fields, then the check that DASHSCOPEVIDEO_API_KEY
\* is configured, then the prompt length; then the fixed requiredCoins
createVideo(r) ==
    /\ hpc[r] = "validate"
    /\ kind[r] = "video"
    /\ \E configured \in BOOLEAN :
         IF MissingVideoFields(body[r])
           THEN /\ Return(r, "validation_error")
                /\ UNCHANGED coinAmount
           ELSE IF ~configured
                  THEN /\ Return(r, "not_configured")
                       /\ UNCHANGED coinAmount
                  ELSE IF PromptTooLong(body[r])
                         THEN /\ Return(r, "validation_error")
                              /\ UNCHANGED coinAmount
                         ELSE /\ coinAmount' = [coinAmount EXCEPT ![r] = VideoRequiredCoins]
                              /\ hpc' = [hpc EXCEPT ![r] = "check"]
                              /\ UNCHANGED resp
    /\ body' = [body EXCEPT ![r] = NoBody]
    /\ UNCHANGED <<ledgerVars, storeVars, routineVars, kind, seen>>

\* ---- checkUserCoins: the handler's pre-check, no ledger entry -----------
checkUserCoins(r) ==
    /\ hpc[r] = "check"
    /\ \E fetched \in StoreAnswers :
         IF ~fetched
           THEN Return(r, "fetch_failed")
           ELSE IF user_coins < coinAmount[r]
                  THEN Return(r, "insufficient")
                  \* deductCoins: fetch POST /api/user/subtractCoins
                  ELSE /\ hpc' = [hpc EXCEPT ![r] = "sc_read"]
                       /\ UNCHANGED resp
    /\ UNCHANGED <<ledgerVars, storeVars, routineVars, kind, body, coinAmount, seen>>

\* ---- POST /api/user/subtractCoins ---------------------------------------
\* A direct call of the endpoint; a submission reaches the same handler
\* through deductCoins (see checkUserCoins).
subtractCoins(r) ==
    /\ hpc[r] = "idle"
    /\ \E amount \in CoinAmounts :
         /\ kind' = [kind EXCEPT ![r] = "sub"]
         /\ IF amount = 0          \* !coinAmount
              THEN /\ Return(r, "validation_error")
                   /\ UNCHANGED coinAmount
              ELSE /\ coinAmount' = [coinAmount EXCEPT ![r] = amount]
                   /\ hpc' = [hpc EXCEPT ![r] = "sc_read"]
                   /\ UNCHANGED resp
    /\ UNCHANGED <<ledgerVars, storeVars, routineVars, body, seen>>

\* what the caller of subtractCoins gets when the endpoint answers 500
ServerError(r) == IF kind[r] = "sub" THEN "server_error" ELSE "deduct_failed"

\* the answer of the endpoint is not looked at
deductCoins_unchecked(succeeded) == "insert"

\* deductCoins throws unless the endpoint answered ok with success: true,
\* and the submit handler returns 400 on the throw; otherwise the handler
\* goes on to create the record
deductCoins(succeeded) == IF succeeded THEN "insert" ELSE "done"

\* subtractCoins answers: a direct caller gets `answer`; a submit handler
\* gets it through deductCoins
Answer(r, answer, succeeded) ==
    /\ hpc' = [hpc EXCEPT ![r] = IF kind[r] = "sub" THEN "done"
                                                   ELSE deductCoins(succeeded)]
    /\ resp' = [resp EXCEPT ![r] = IF kind[r] = "sub" \/ ~succeeded THEN answer ELSE @]

\* Step 1: fetch user details
subtractCoins_fetch(r) ==
    /\ hpc[r] = "sc_read"
    /\ \E fetched \in StoreAnswers :
         IF fetched
           THEN /\ seen' = [seen EXCEPT ![r] = user_coins]
                /\ hpc' = [hpc EXCEPT ![r] = "sc_check"]
                /\ UNCHANGED resp
           ELSE /\ Answer(r, ServerError(r), FALSE)
                /\ UNCHANGED seen
    /\ UNCHANGED <<ledgerVars, storeVars, routineVars, kind, body, coinAmount>>

\* the balance check left out
Insufficient_never(coins, amount) == FALSE

\* Step 2: the balance check of subtractCoins, on the value read in step 1
Insufficient(coins, amount) == coins < amount

\* remaining_coins taken from the balance read in step 1, whatever was written
LedgerEntry_before(r, remaining, status) ==
    [req |-> r, coin_amount |-> coinAmount[r], remaining_coins |-> seen[r],
     status |-> status]

\* one row of user_transaction
LedgerEntry(r, remaining, status) ==
    [req |-> r, coin_amount |-> coinAmount[r], remaining_coins |-> remaining,
     status |-> status]

\* Step 2, not enough coins: log a failed transaction, answer 400
subtractCoins_reject(r) ==
    /\ hpc[r] = "sc_check"
    /\ Insufficient(seen[r], coinAmount[r])
    /\ \E logged \in StoreAnswers :
         user_transaction' =
            IF logged THEN Append(user_transaction, LedgerEntry(r, seen[r], "failed"))
                      ELSE user_transaction
    /\ Answer(r, "insufficient", FALSE)
    /\ UNCHANGED <<auxVars, reliable, user_coins, start_coins, debited, storeVars, routineVars,
                   kind, body, coinAmount, seen>>

\* a decrement of the stored balance instead of the value read in step 1
updatedCoins_stored(r) == user_coins - coinAmount[r]

\* Step 3: the balance written by subtractCoins
updatedCoins(r) == seen[r] - coinAmount[r]

\* Step 3: subtract the coins: write (value read in step 1) - coinAmount
subtractCoins_update(r) ==
    /\ hpc[r] = "sc_check"
    /\ ~Insufficient(seen[r], coinAmount[r])
    /\ \E updated \in StoreAnswers :
         IF updated
           THEN /\ user_coins' = updatedCoins(r)
                /\ debited' = [debited EXCEPT ![r] = TRUE]
                /\ hpc' = [hpc EXCEPT ![r] = "sc_log"]
                /\ UNCHANGED resp
           ELSE /\ Answer(r, ServerError(r), FALSE)
                /\ UNCHANGED <<user_coins, debited>>
    /\ UNCHANGED <<auxVars, reliable, start_coins, user_transaction, storeVars, routineVars,
                   kind, body, coinAmount, seen>>

\* Step 4: log the successful transaction (an insert error is only logged),
\* answer success; a submission goes on to create its job record
subtractCoins_log(r) ==
    /\ hpc[r] = "sc_log"
    /\ \E logged \in StoreAnswers :
         user_transaction' =
            IF logged THEN Append(user_transaction, LedgerEntry(r, updatedCoins(r), "success"))
                      ELSE user_transaction
    /\ Answer(r, "success", TRUE)
    /\ UNCHANGED <<auxVars, reliable, user_coins, start_coins, debited, storeVars, routineVars,
                   kind, body, coinAmount, seen>>

\* ---- the submit handlers after the debit --------------------------------
PendingAudio == [status |-> "pending", transcription |-> NULL, error_message |-> NULL,
                 audio_name |-> "audioName", xml_data |-> NULL]
PendingVideo == [status |-> "pending", video_url |-> NULL, error_message |-> NULL,
                 task_id |-> NULL, task_status |-> NULL, prompt_text |-> "promptText"]

\* an update that creates the row when no row matches
UpdateAudio_upsert(r, row) == audio_metadata' = [audio_metadata EXCEPT ![r] = row]

\* .update(columns).eq('uid', uid).eq('audioid', audioid): the columns of
\* the matching row; with no matching row nothing is written, and no error
UpdateAudio(r, row) ==
    audio_metadata' = [audio_metadata EXCEPT
        ![r] = IF @.status = "absent" THEN @ ELSE row]

UpdateVideo(r, row) ==
    video_metadata' = [video_metadata EXCEPT
        ![r] = IF @.status = "absent" THEN @ ELSE row]

\* insertError is not looked at
AfterInsert_unchecked(inserted) == "start"

\* if (insertError) return 500; otherwise go on to start the routine
AfterInsert(inserted) == IF inserted THEN "start" ELSE "done"

\* create the initial record with pending status
insertRecord(r) ==
    /\ hpc[r] = "insert"
    /\ \E inserted \in StoreAnswers :
         /\ IF ~inserted
              THEN UNCHANGED storeVars
              ELSE IF kind[r] = "audio"
                     THEN /\ audio_metadata' = [audio_metadata EXCEPT ![r] = PendingAudio]
                          /\ UNCHANGED video_metadata
                     ELSE /\ video_metadata' = [video_metadata EXCEPT ![r] = PendingVideo]
                          /\ UNCHANGED audio_metadata
         /\ hpc' = [hpc EXCEPT ![r] = AfterInsert(inserted)]
         /\ resp' = [resp EXCEPT ![r] =
                IF AfterInsert(inserted) = "done" THEN "insert_failed" ELSE @]
    /\ UNCHANGED <<ledgerVars, routineVars, kind, body, coinAmount, seen>>

\* start the background routine: c.executionCtx throws when the runtime gave
\* the request no execution context, before the routine is created; otherwise
\* the routine is called and runs up to its first await
startBackground(r) ==
    /\ hpc[r] = "start"
    /\ \E hasExecutionCtx \in BOOLEAN :
         IF hasExecutionCtx
           THEN /\ rpc' = [rpc EXCEPT ![r] = "set_processing"]
                /\ hpc' = [hpc EXCEPT ![r] = "respond"]
           ELSE /\ hpc' = [hpc EXCEPT ![r] = "start_failed"]
                /\ UNCHANGED rpc
    /\ UNCHANGED <<ledgerVars, storeVars, kind, body, coinAmount, seen, resp, elapsed, rerr, statusResult>>

\* the partial update {status: 'failed', error_message} of a row
MarkFailed(row, message) == [row EXCEPT !.status = "failed", !.error_message = message]

\* the background job failed to start: mark the record failed, answer 500
startFailed(r) ==
    /\ hpc[r] = "start_failed"
    /\ \E updated \in StoreAnswers :
         IF ~updated
           THEN UNCHANGED storeVars
           ELSE IF kind[r] = "audio"
                  THEN /\ UpdateAudio(r, MarkFailed(audio_metadata[r], "failed_to_start"))
                       /\ UNCHANGED video_metadata
                  ELSE /\ UpdateVideo(r, MarkFailed(video_metadata[r], "failed_to_start"))
                       /\ UNCHANGED audio_metadata
    /\ Return(r, "start_failed")
    /\ UNCHANGED <<ledgerVars, routineVars, kind, body, coinAmount, seen>>

\* return immediately with the job id and status 'pending'
respondPending(r) ==
    /\ hpc[r] = "respond"
    /\ Return(r, "pending")
    /\ UNCHANGED <<ledgerVars, storeVars, routineVars, kind, body, coinAmount, seen>>

\* ---- processTranscription: the background routine of an audio job -------
\* the routine throws `message`: control moves to its top-level catch
Throw(r, message) ==
    /\ rerr' = [rerr EXCEPT ![r] = message]
    /\ rpc' = [rpc EXCEPT ![r] = "catch"]

\* the routine was called inside the handler, but the request of its first
\* store call is sent from a microtask (the query builder is a thenable that
\* `await` resolves), which runs when the synchronous code of the handler,
\* up to its `return c.json(...)`, has ended
Scheduled_atCall(r) == TRUE

Scheduled(r) == hpc[r] = "done"

\* update status to processing; the result of the update is not looked at
processTranscription_processing(r) ==
    /\ kind[r] = "audio"
    /\ rpc[r] = "set_processing"
    /\ Scheduled(r)
    /\ \E updated \in StoreAnswers :
         IF updated
           THEN UpdateAudio(r, [audio_metadata[r] EXCEPT !.status = "processing"])
           ELSE UNCHANGED audio_metadata
    /\ rpc' = [rpc EXCEPT ![r] = "transcribe"]
    /\ UNCHANGED <<ledgerVars, handlerVars, video_metadata, elapsed, rerr, statusResult>>

\* the Deepgram request has not answered yet; the fetch has no timeout
transcribeAudioWithDeepgram_wait(r) ==
    /\ kind[r] = "audio"
    /\ rpc[r] = "transcribe"
    /\ elapsed[r] <= MaxPollRounds
    /\ elapsed' = [elapsed EXCEPT ![r] = @ + 1]
    /\ UNCHANGED <<ledgerVars, storeVars, handlerVars, rpc, rerr, statusResult>>

\* transcribeAudioWithDeepgram returns a transcript, or "" after any error
transcribeAudioWithDeepgram(r) ==
    /\ kind[r] = "audio"
    /\ rpc[r] = "transcribe"
    /\ \E transcription \in {"", "text"} :
         IF transcription = ""
           THEN Throw(r, "empty_transcription")
           ELSE /\ rpc' = [rpc EXCEPT ![r] = "save"]
                /\ UNCHANGED rerr
    /\ elapsed' = [elapsed EXCEPT ![r] = 0]
    /\ UNCHANGED <<ledgerVars, storeVars, handlerVars, statusResult>>

\* the transcription column left out of the update
CompletedAudio_noResult(row, transcription) == [row EXCEPT !.status = "completed"]

\* the whole row written back as the handler inserted it, with the result
CompletedAudio_wholeRow(row, transcription) ==
    [PendingAudio EXCEPT !.transcription = transcription, !.status = "completed"]

\* the partial update {transcription, words_data, status: 'completed'}
CompletedAudio(row, transcription) ==
    [row EXCEPT !.transcription = transcription, !.status = "completed"]

\* update with the transcription results
processTranscription_save(r) ==
    /\ kind[r] = "audio"
    /\ rpc[r] = "save"
    /\ \E updated \in StoreAnswers :
         IF updated
           THEN /\ UpdateAudio(r, CompletedAudio(audio_metadata[r], "text"))
                /\ rpc' = [rpc EXCEPT ![r] = "done"]
                /\ UNCHANGED rerr
           ELSE /\ Throw(r, "save_failed")
                /\ UNCHANGED audio_metadata
    /\ UNCHANGED <<ledgerVars, handlerVars, video_metadata, elapsed, statusResult>>

\* top-level catch: update status to failed; the result is not looked at
processTranscription_catch(r) ==
    /\ kind[r] = "audio"
    /\ rpc[r] = "catch"
    /\ \E updated \in StoreAnswers :
         IF updated
           THEN UpdateAudio(r, MarkFailed(audio_metadata[r], rerr[r]))
           ELSE UNCHANGED audio_metadata
    /\ rpc' = [rpc EXCEPT ![r] = "done"]
    /\ rerr' = [rerr EXCEPT ![r] = NULL]
    /\ UNCHANGED <<ledgerVars, handlerVars, video_metadata, elapsed, statusResult>>

\* ---- processVideoGeneration: the background routine of a video job ------
\* update status to processing
processVideoGeneration_processing(r) ==
    /\ kind[r] = "video"
    /\ rpc[r] = "set_processing"
    /\ Scheduled(r)
    /\ \E updated \in StoreAnswers :
         IF updated
           THEN /\ UpdateVideo(r, [video_metadata[r] EXCEPT !.status = "processing"])
                /\ rpc' = [rpc EXCEPT ![r] = "generate"]
                /\ UNCHANGED rerr
           ELSE /\ Throw(r, "processing_update_failed")
                /\ UNCHANGED video_metadata
    /\ UNCHANGED <<ledgerVars, handlerVars, audio_metadata, elapsed, statusResult>>

\* generateVideoWithDashScope: a task id, or it throws / returns no task id
generateVideoWithDashScope(r) ==
    /\ kind[r] = "video"
    /\ rpc[r] = "generate"
    /\ \E task_id \in {NULL, "task"} :
         IF task_id = NULL
           THEN Throw(r, "generation_failed")
           ELSE /\ rpc' = [rpc EXCEPT ![r] = "save_task"]
                /\ UNCHANGED rerr
    /\ UNCHANGED <<ledgerVars, storeVars, handlerVars, elapsed, statusResult>>

\* task_id left out of the update
TaskRow_noHandle(row) ==
    [row EXCEPT !.task_status = "PENDING", !.status = "generating"]

\* the partial update {task_id, task_status, request_id, status: 'generating'}
TaskRow(row) ==
    [row EXCEPT !.task_id = "task", !.task_status = "PENDING", !.status = "generating"]

\* update with the generation task details; then startTime = Date.now()
processVideoGeneration_task(r) ==
    /\ kind[r] = "video"
    /\ rpc[r] = "save_task"
    /\ \E updated \in StoreAnswers :
         IF updated
           THEN /\ UpdateVideo(r, TaskRow(video_metadata[r]))
                /\ rpc' = [rpc EXCEPT ![r] = "poll"]
                /\ UNCHANGED rerr
           ELSE /\ Throw(r, "task_update_failed")
                /\ UNCHANGED video_metadata
    /\ UNCHANGED <<ledgerVars, handlerVars, audio_metadata, elapsed, statusResult>>

\* the loop condition: Date.now() - startTime < maxPollingTime
KeepPolling(r) == elapsed[r] < MaxPollRounds

\* the catch of the round throws on
AfterPoll_rethrow(answer) ==
    IF answer = "SUCCEEDED_with_url" THEN "relocate"
    ELSE IF answer = "throws" THEN "catch" ELSE "poll"

\* what a poll round does with the answer of checkVideoStatus: "relocate"
\* (completion branch) or "poll" (next round); a FAILED answer throws inside
\* the round's own try and is caught by the round's catch, as is an error
\* thrown by checkVideoStatus itself
AfterPoll(answer) ==
    IF answer = "SUCCEEDED_with_url" THEN "relocate" ELSE "poll"

TaskStatus(answer) ==
    IF answer \in {"SUCCEEDED_with_url", "SUCCEEDED_no_url"} THEN "SUCCEEDED" ELSE answer

\* one round of the polling loop: sleep pollingInterval, checkVideoStatus,
\* store task_status (result not looked at), branch on the answer
processVideoGeneration_poll(r) ==
    /\ kind[r] = "video"
    /\ rpc[r] = "poll"
    /\ KeepPolling(r)
    /\ \E answer \in {"throws", "RUNNING", "SUCCEEDED_no_url", "SUCCEEDED_with_url", "FAILED"} :
         /\ statusResult' = [statusResult EXCEPT ![r] = answer]
         /\ IF answer = "throws"
              THEN UNCHANGED video_metadata
              ELSE \E updated \in StoreAnswers :
                     IF updated
                       THEN UpdateVideo(r, [video_metadata[r] EXCEPT
                                !.task_status = TaskStatus(answer)])
                       ELSE UNCHANGED video_metadata
         /\ rpc' = [rpc EXCEPT ![r] = AfterPoll(answer)]
    /\ elapsed' = [elapsed EXCEPT ![r] = @ + 1]
    /\ UNCHANGED <<ledgerVars, handlerVars, audio_metadata, rerr>>

\* downloadAndUploadVideo: the public URL in owned storage, or it throws
downloadAndUploadVideo(r) ==
    /\ kind[r] = "video"
    /\ rpc[r] = "relocate"
    /\ \E uploaded \in BOOLEAN :
         rpc' = [rpc EXCEPT ![r] = IF uploaded THEN "save_final" ELSE "fallback"]
    /\ UNCHANGED <<ledgerVars, storeVars, handlerVars, elapsed, rerr, statusResult>>

\* the `return` after the final update left out: the loop goes on
AfterFinal_noReturn == "poll"

\* a throw after the final update was stored, into the top-level catch
AfterFinal_throws == "catch"

\* `return` after the final update was stored
AfterFinal == "done"

\* update with the final results; an update error throws into the fallback
processVideoGeneration_final(r) ==
    /\ kind[r] = "video"
    /\ rpc[r] = "save_final"
    /\ \E updated \in StoreAnswers :
         IF updated
           THEN /\ UpdateVideo(r, [video_metadata[r] EXCEPT !.video_url = "owned_url",
                        !.status = "completed", !.task_status = "SUCCEEDED"])
                /\ rpc' = [rpc EXCEPT ![r] = AfterFinal]
                \* startTime is dead once the routine has returned
                /\ elapsed' = [elapsed EXCEPT ![r] = IF AfterFinal = "done" THEN 0 ELSE @]
                /\ statusResult' = [statusResult EXCEPT ![r] =
                        IF AfterFinal = "done" THEN NULL ELSE @]
           ELSE /\ rpc' = [rpc EXCEPT ![r] = "fallback"]
                /\ UNCHANGED <<video_metadata, elapsed, statusResult>>
    /\ UNCHANGED <<ledgerVars, handlerVars, audio_metadata, rerr>>

\* the row written by the upload fallback
FallbackRow(row) ==
    [row EXCEPT !.video_url = "remote_url", !.status = "completed",
                !.task_status = "SUCCEEDED",
                !.error_message = "not_uploaded_to_storage"]

\* fallback: store the original URL; the result is not looked at; return
processVideoGeneration_fallback(r) ==
    /\ kind[r] = "video"
    /\ rpc[r] = "fallback"
    /\ \E updated \in StoreAnswers :
         IF updated
           THEN UpdateVideo(r, FallbackRow(video_metadata[r]))
           ELSE UNCHANGED video_metadata
    /\ rpc' = [rpc EXCEPT ![r] = "done"]
    /\ elapsed' = [elapsed EXCEPT ![r] = 0]
    /\ statusResult' = [statusResult EXCEPT ![r] = NULL]
    /\ UNCHANGED <<ledgerVars, handlerVars, audio_metadata, rerr>>

\* the loop ended without a result: polling timed out
processVideoGeneration_timeout(r) ==
    /\ kind[r] = "video"
    /\ rpc[r] = "poll"
    /\ ~KeepPolling(r)
    /\ Throw(r, "timed_out")
    /\ elapsed' = [elapsed EXCEPT ![r] = 0]
    /\ statusResult' = [statusResult EXCEPT ![r] = NULL]
    /\ UNCHANGED <<ledgerVars, storeVars, handlerVars>>

\* top-level catch: update status to failed; an update error is only logged
processVideoGeneration_catch(r) ==
    /\ kind[r] = "video"
    /\ rpc[r] = "catch"
    /\ \E updated \in StoreAnswers :
         IF updated
           THEN UpdateVideo(r, MarkFailed(video_metadata[r], rerr[r]))
           ELSE UNCHANGED video_metadata
    /\ rpc' = [rpc EXCEPT ![r] = "done"]
    /\ rerr' = [rerr EXCEPT ![r] = NULL]
    /\ UNCHANGED <<ledgerVars, handlerVars, audio_metadata, elapsed, statusResult>>

\* ---- edit and remove requests on the record of job r --------------------
\* A client names a record by the id it got from the submit response or from
\* a listing, so these requests arrive for records that exist.
OpFree == ops < MaxOps /\ op.pc = "done"

\* the requests r are interchangeable, so it is enough that these requests
\* name the record of the first
OpTargets == {1}

\* the request is received; a handler that has answered holds nothing
StartOp(name, r, pc) ==
    /\ op' = IF pc = "done" THEN NoOp
              ELSE [NoOp EXCEPT !.name = name, !.job = r, !.pc = pc]
    /\ ops' = ops + 1

\* POST /api/audio/editAudio: update({audio_name: updatedName})
editAudio(r) ==
    /\ OpFree
    /\ audio_metadata[r].status # "absent"
    /\ StartOp("editAudio", r, "done")
    /\ \E updated \in StoreAnswers :
         IF updated
           THEN UpdateAudio(r, [audio_metadata[r] EXCEPT !.audio_name = "updatedName"])
           ELSE UNCHANGED audio_metadata
    /\ UNCHANGED <<coinVars, video_metadata, handlerVars, routineVars>>

\* POST /api/audio/sendXmlGraph: fetch the existing record; `.single()`
\* gives an error when no row matches, which the handler throws (500)
sendXmlGraph(r) ==
    /\ OpFree
    /\ audio_metadata[r].status # "absent"
    /\ \E fetched \in StoreAnswers :
         StartOp("sendXmlGraph", r, IF fetched THEN "xml_update" ELSE "done")
    /\ UNCHANGED <<coinVars, storeVars, handlerVars, routineVars>>

\* the record exists: update({xml_data: xmlData})
sendXmlGraph_update(r) ==
    /\ op.name = "sendXmlGraph" /\ op.job = r /\ op.pc = "xml_update"
    /\ op' = NoOp
    /\ \E updated \in StoreAnswers :
         IF updated
           THEN UpdateAudio(r, [audio_metadata[r] EXCEPT !.xml_data = "xmlData"])
           ELSE UNCHANGED audio_metadata
    /\ UNCHANGED <<coinVars, ops, video_metadata, handlerVars, routineVars>>

\* POST /api/video/editVideo: update({prompt_text: updatedPrompt})
editVideo(r) ==
    /\ OpFree
    /\ video_metadata[r].status # "absent"
    /\ StartOp("editVideo", r, "done")
    /\ \E updated \in StoreAnswers :
         IF updated
           THEN UpdateVideo(r, [video_metadata[r] EXCEPT !.prompt_text = "updatedPrompt"])
           ELSE UNCHANGED video_metadata
    /\ UNCHANGED <<coinVars, audio_metadata, handlerVars, routineVars>>

\* POST /api/audio/removeAudio: delete the row (then the stored file)
removeAudio(r) ==
    /\ OpFree
    /\ audio_metadata[r].status # "absent"
    /\ StartOp("removeAudio", r, "done")
    /\ \E deleted \in StoreAnswers :
         audio_metadata' = [audio_metadata EXCEPT ![r] = IF deleted THEN NoAudio ELSE @]
    /\ UNCHANGED <<coinVars, video_metadata, handlerVars, routineVars>>

\* POST /api/video/removeVideo: delete the row (then the stored file)
removeVideo(r) ==
    /\ OpFree
    /\ video_metadata[r].status # "absent"
    /\ StartOp("removeVideo", r, "done")
    /\ \E deleted \in StoreAnswers :
         video_metadata' = [video_metadata EXCEPT ![r] = IF deleted THEN NoVideo ELSE @]
    /\ UNCHANGED <<coinVars, audio_metadata, handlerVars, routineVars>>

\* ---- POST /api/user/BuySubscription ------------------------------------
\* Steps 1 to 3: fetch the plan, fetch the user (user_coins is read here);
\* an Addon needs an active subscription
BuySubscription ==
    /\ OpFree
    /\ ops' = ops + 1
    /\ \E plan \in Plans, fetched \in StoreAnswers, subscription_active \in BOOLEAN :
         op' = IF fetched /\ (plan = "Addon" => subscription_active)
                 THEN [NoOp EXCEPT !.name = "BuySubscription", !.plan = plan,
                                   !.seen = user_coins, !.pc = "buy_update"]
                 ELSE NoOp
    /\ UNCHANGED <<coinVars, storeVars, handlerVars, routineVars>>

\* Step 4: an Addon adds the coins of the plan to the balance read in step
\* 2, any other plan sets the balance to the coins of the plan; step 5
\* inserts into user_order, not into user_transaction
BuySubscription_update ==
    /\ op.name = "BuySubscription" /\ op.pc = "buy_update"
    /\ op' = NoOp
    /\ \E coins \in PlanCoins, updated \in StoreAnswers :
         user_coins' = IF ~updated THEN user_coins
                       ELSE IF op.plan = "Addon" THEN op.seen + coins ELSE coins
    /\ UNCHANGED <<reliable, start_coins, user_transaction, debited, ops,
                   storeVars, handlerVars, routineVars>>

\* ---- POST /api/audio/getAudioStatus, /api/video/getVideoStatus ---------
\* a JavaScript value is truthy: neither null nor the empty string
Truthy(v) == v # NULL /\ v # ""

StatusResponse(status, error_message) ==
    [status |-> status, error_message |-> error_message]

\* the `processing` branch left out
getAudioStatus_noProcessing(row) ==
    IF row.status = "completed" /\ Truthy(row.transcription)
      THEN StatusResponse("completed", NULL)
      ELSE IF row.status = "failed"
             THEN StatusResponse("failed", row.error_message)
             ELSE StatusResponse("pending", NULL)

\* the body getAudioStatus answers for a row it found: only the failed
\* answer carries error_message
getAudioStatus(row) ==
    IF row.status = "completed" /\ Truthy(row.transcription)
      THEN StatusResponse("completed", NULL)
      ELSE IF row.status = "failed"
             THEN StatusResponse("failed", row.error_message)
             ELSE IF row.status = "processing"
                    THEN StatusResponse("processing", NULL)
                    ELSE StatusResponse("pending", NULL)

\* the body getVideoStatus answers for a row it found
getVideoStatus(row) ==
    IF row.status = "completed" /\ Truthy(row.video_url)
      THEN StatusResponse("completed", NULL)
      ELSE IF row.status = "failed"
             THEN StatusResponse("failed", row.error_message)
             ELSE IF row.status = "generating"
                    THEN StatusResponse("generating", NULL)
                    ELSE IF row.status = "processing"
                           THEN StatusResponse("processing", NULL)
                           ELSE StatusResponse("pending", NULL)

\* ---- the system ---------------------------------------------------------
Next ==
    \/ BuySubscription
    \/ BuySubscription_update
    \/ \E r \in OpTargets :
        \/ editAudio(r)
        \/ sendXmlGraph(r)
        \/ sendXmlGraph_update(r)
        \/ editVideo(r)
        \/ removeAudio(r)
        \/ removeVideo(r)
    \/ \E r \in Req :
        \/ uploadAudioUrl_request(r)
        \/ uploadAudioUrl(r)
        \/ createVideo_request(r)
        \/ createVideo(r)
        \/ subtractCoins(r)
        \/ checkUserCoins(r)
        \/ subtractCoins_fetch(r)
        \/ subtractCoins_reject(r)
        \/ subtractCoins_update(r)
        \/ subtractCoins_log(r)
        \/ insertRecord(r)
        \/ startBackground(r)
        \/ startFailed(r)
        \/ respondPending(r)
        \/ processTranscription_processing(r)
        \/ transcribeAudioWithDeepgram_wait(r)
        \/ transcribeAudioWithDeepgram(r)
        \/ processTranscription_save(r)
        \/ processTranscription_catch(r)
        \/ processVideoGeneration_processing(r)
        \/ generateVideoWithDashScope(r)
        \/ processVideoGeneration_task(r)
        \/ processVideoGeneration_poll(r)
        \/ downloadAndUploadVideo(r)
        \/ processVideoGeneration_final(r)
        \/ processVideoGeneration_fallback(r)
        \/ processVideoGeneration_timeout(r)
        \/ processVideoGeneration_catch(r)

Spec == Init /\ [][Next]_vars

\* the behaviours in which the store applies every call
InitReliable == Init /\ reliable = TRUE

SpecReliable == InitReliable /\ [][Next]_vars

\* ---- properties ---------------------------------------------------------
\* a step of a submit or subtractCoins handler or of a background routine,
\* not of an edit, remove or purchase request
LifecycleStep == UNCHANGED auxVars

Submission(r) == kind[r] \in {"audio", "video"}

\* the job record of request r, whichever table holds it
Job(r) == IF kind[r] = "video" THEN video_metadata[r] ELSE audio_metadata[r]
JobExists(r) == Submission(r) /\ Job(r).status # "absent"
Terminal(row) == row.status \in {"completed", "failed"}

\* the reserve call of r reported success to its caller
ReserveSucceeded(r) ==
    \/ kind[r] = "sub" /\ resp[r] = "success"
    \/ /\ Submission(r)
       /\ \/ hpc[r] \in {"insert", "start", "start_failed", "respond"}
          \/ resp[r] \in {"insert_failed", "start_failed", "pending"}

RECURSIVE SumAmounts(_)
SumAmounts(S) ==
    IF S = {} THEN 0
    ELSE LET r == CHOOSE x \in S : TRUE IN coinAmount[r] + SumAmounts(S \ {r})

\* ledger entries request r produced with the given status
Entries(r, status) ==
    {i \in 1..Len(user_transaction) :
        /\ user_transaction[i].req = r
        /\ user_transaction[i].status = status
        /\ user_transaction[i].coin_amount = coinAmount[r]}

\* C1: the amounts of the reserve calls that reported success never add up
\* to more than the balance the owner had before the calls started (while no
\* purchase, edit or remove request has been received).
C1_ReservedWithinBalance ==
    ops = 0 => SumAmounts({r \in Req : ReserveSucceeded(r)}) <= start_coins

\* C2: the stored balance users.user_coins is never negative, under any
\* interleaving of subtractCoins calls and job submissions.
C2_BalanceNonNegative == user_coins >= 0

\* C2 witness: a direct call and a submission both debited, out of a balance
\* that did not cover both, and the routine of the job has started.
C2_Witness ==
    \E r1, r2 \in Req :
        /\ kind[r1] = "sub" /\ Submission(r2)
        /\ debited[r1] /\ debited[r2]
        /\ coinAmount[r1] + coinAmount[r2] > start_coins
        /\ rpc[r2] # "none"

\* C3: once the stored status of a job is completed or failed, no step of
\* the lifecycle code changes any field of its record.
C3_TerminalImmutable ==
    [][LifecycleStep => \A r \in Req :
          /\ Terminal(audio_metadata[r]) => audio_metadata'[r] = audio_metadata[r]
          /\ Terminal(video_metadata[r]) => video_metadata'[r] = video_metadata[r]]_vars

\* C3 witness: a completed video job whose routine has returned, next to a
\* job that the start-failure fallback marked failed.
C3_Witness ==
    \E r1, r2 \in Req :
        /\ video_metadata[r1].status = "completed" /\ rpc[r1] = "done"
        /\ Job(r2).status = "failed" /\ resp[r2] = "start_failed"

\* C4: the result field of a job (transcription / video_url) is non-null
\* exactly when its stored status is completed.
C4_ResultIffCompleted ==
    \A r \in Req :
        /\ audio_metadata[r].transcription # NULL <=> audio_metadata[r].status = "completed"
        /\ video_metadata[r].video_url # NULL <=> video_metadata[r].status = "completed"

\* C4 witness: a completed audio job with its transcription next to a failed
\* video job without a video_url.
C4_Witness ==
    \E r1, r2 \in Req :
        /\ audio_metadata[r1].status = "completed"
        /\ audio_metadata[r1].transcription = "text"
        /\ video_metadata[r2].status = "failed"
        /\ video_metadata[r2].video_url = NULL

\* C5: error_message is non-null exactly when the stored status is failed.
C5_ErrorIffFailed ==
    \A r \in Req :
        /\ audio_metadata[r].error_message # NULL <=> audio_metadata[r].status = "failed"
        /\ video_metadata[r].error_message # NULL <=> video_metadata[r].status = "failed"

\* C6: every job record in the store has exactly one ledger entry of its own
\* reservation with status success and coin_amount equal to the coins charged.
C6_JobHasReservation ==
    \A r \in Req : JobExists(r) => Cardinality(Entries(r, "success")) = 1

\* C7: every reservation attempt that was rejected for insufficient coins has
\* exactly one ledger entry, with status failed, and every successful one has
\* exactly one, with status success.
C7_OneEntryPerAttempt ==
    \A r \in Req :
        /\ resp[r] = "insufficient" =>
              /\ Cardinality(Entries(r, "failed")) = 1
              /\ Entries(r, "success") = {}
        /\ (ReserveSucceeded(r) /\ hpc[r] # "sc_log") =>
              /\ Cardinality(Entries(r, "success")) = 1
              /\ Entries(r, "failed") = {}

C9_TimeoutBound ==
    \A r \in Req :
        (JobExists(r) /\ elapsed[r] > MaxPollRounds) =>
            /\ Job(r).status = "failed"
            /\ Job(r).error_message = "timed_out"

\* C10: when the background routine of a job has ended, whatever fault it
\* met, the stored status of the job is completed or failed.
C10_RoutineEndsTerminal ==
    \A r \in Req : (rpc[r] = "done" /\ JobExists(r)) => Terminal(Job(r))

\* C11: the response to a successful submission does not wait for, or depend
\* on, the job moving past pending: every write of the background routine to
\* the job record happens after the handler has returned its pending
\* response, and leaves that response as it is.
C11_ResponseBeforeStatusWrite ==
    [][\A r \in Req :
          (LifecycleStep /\ rpc[r] # "none" /\ (audio_metadata'[r] # audio_metadata[r]
                                \/ video_metadata'[r] # video_metadata[r]))
              => (resp[r] = "pending" /\ resp'[r] = "pending")]_vars

\* C11 witness: one submission has its pending response while its job is
\* still pending, another has it and its routine has already failed the job.
C11_Witness ==
    \E r1, r2 \in Req :
        /\ resp[r1] = "pending" /\ Job(r1).status = "pending"
        /\ rpc[r1] = "set_processing"
        /\ resp[r2] = "pending" /\ Job(r2).status = "failed" /\ rpc[r2] = "done"

\* C12: when a poll has reported terminal failure of the external worker,
\* polling has stopped (the job is not polled again) and the job ends failed.
C12_FailedPollStops ==
    \A r \in Req :
        video_metadata[r].task_status = "FAILED" =>
            /\ rpc[r] \in {"catch", "done"}
            /\ rpc[r] = "done" => video_metadata[r].status = "failed"

\* the order in which the stored status of a job may advance
StatusBefore ==
    {<<"absent", "pending">>, <<"pending", "processing">>,
     <<"processing", "generating">>, <<"generating", "completed">>}

\* C13: when the first poll after a successful worker submit reports success
\* with a result, the stored status of the video job has advanced pending,
\* processing, generating in that order, and the routine ends with status
\* completed, video_url set and error_message null.
C13_FirstPollSucceeds ==
    [][\A r \in Req :
          /\ (video_metadata'[r].status \in {"pending", "processing", "generating", "completed"}
               /\ video_metadata'[r].status # video_metadata[r].status)
                  => <<video_metadata[r].status, video_metadata'[r].status>> \in StatusBefore
          /\ (JobExists(r) /\ kind[r] = "video" /\ rpc[r] \in {"save_final", "fallback"}
               /\ elapsed[r] = 1 /\ rpc'[r] = "done")
                  => /\ video_metadata'[r].status = "completed"
                     /\ video_metadata'[r].video_url # NULL
                     /\ video_metadata'[r].error_message = NULL]_vars

\* C14: when the poll reported success and relocating the video failed, the
\* routine ends with the job completed (never failed), video_url the remote
\* URL of the worker, and a warning recorded on the record.
C14_RelocationFailureCompletes ==
    [][\A r \in Req :
          (JobExists(r) /\ rpc[r] = "fallback" /\ rpc'[r] # "fallback")
              => /\ rpc'[r] = "done"
                 /\ video_metadata'[r].status = "completed"
                 /\ video_metadata'[r].video_url = "remote_url"
                 /\ video_metadata'[r].error_message # NULL]_vars

\* the bodies the input validation has to reject
RejectedBody(r) ==
    IF kind[r] = "audio"
      THEN \/ body[r].uid = ""
           \/ body[r].audioUrl.length = 0 \/ ~body[r].audioUrl.parses
           \/ body[r].audioUrl.length > 255
           \/ body[r].duration[1] <= 0
      ELSE \/ body[r].uid = ""
           \/ body[r].promptLength = 0
           \/ body[r].promptLength > 1000

\* C15: a submission with a missing uid, a missing or malformed URL, a URL of
\* more than 255 characters, a missing or non-positive duration, a missing
\* prompt or a prompt of more than 1000 characters is rejected and creates no
\* state: balance, ledger and job store stay as they are and no routine is
\* started, then or later.
C15_RejectedCreatesNothing ==
    [][\A r \in Req :
          /\ (hpc[r] = "validate" /\ hpc'[r] # "validate" /\ RejectedBody(r))
                => /\ resp'[r] \in {"validation_error", "not_configured"}
                   /\ hpc'[r] = "done"
                   /\ UNCHANGED <<user_coins, user_transaction, audio_metadata,
                                  video_metadata, rpc>>
          /\ resp'[r] = "validation_error"
                => /\ ~(JobExists(r))' /\ rpc'[r] = "none" /\ ~debited'[r]
                   /\ \A i \in 1..Len(user_transaction') : user_transaction'[i].req # r]_vars

\* C15 witness: an audio and a video submission were both rejected by the
\* validation; balance and ledger are as they were.
C15_Witness ==
    \E r1, r2 \in Req :
        /\ kind[r1] = "audio" /\ resp[r1] = "validation_error"
        /\ kind[r2] = "video" /\ resp[r2] = "validation_error"
        /\ user_coins = start_coins /\ user_transaction = <<>>

\* C16: the coins charged for a transcription of a positive duration, given
\* in seconds, are max(2, ceil(durationSeconds / 60 * 2)); the coins charged
\* for a video are the fixed constant.
C16_CostFormula ==
    [][\A r \in Req :
          (hpc[r] = "validate" /\ hpc'[r] = "check") =>
              coinAmount'[r] =
                  IF kind[r] = "audio"
                    THEN Max(2, Ceil(body[r].duration[1] * 2, body[r].duration[2] * 60))
                    ELSE VideoRequiredCoins]_vars

Alone(r) ==
    /\ \A q \in Req \ {r} : hpc[q] = "idle" /\ hpc'[q] = "idle"
    /\ ops = 0 /\ LifecycleStep

C19_ReportedIsStored ==
    \A r \in Req :
        /\ audio_metadata[r].status # "absent" =>
              /\ getAudioStatus(audio_metadata[r]).status = audio_metadata[r].status
              /\ audio_metadata[r].status \in {"pending", "processing", "completed", "failed"}
              /\ audio_metadata[r].status = "failed" =>
                    getAudioStatus(audio_metadata[r]).error_message
                        = audio_metadata[r].error_message
        /\ video_metadata[r].status # "absent" =>
              /\ getVideoStatus(video_metadata[r]).status = video_metadata[r].status
              /\ video_metadata[r].status \in
                    {"pending", "processing", "generating", "completed", "failed"}
              /\ video_metadata[r].status = "failed" =>
                    getVideoStatus(video_metadata[r]).error_message
                        = video_metadata[r].error_message

\* C19 witness: an audio job in processing next to a video job that failed
\* with the timeout error.
C19_Witness ==
    \E r1, r2 \in Req :
        /\ audio_metadata[r1].status = "processing"
        /\ getAudioStatus(audio_metadata[r1]).status = "processing"
        /\ video_metadata[r2].status = "failed"
        /\ getVideoStatus(video_metadata[r2]) = StatusResponse("failed", "timed_out")

\* C20: when the store update that moves a job from pending to processing
\* fails, the routine aborts with an error for its catch, which marks the
\* job failed, and the external worker is never called; for transcription
\* and for video jobs alike.
C20_ProcessingUpdateFailureAborts ==
    [][\A r \in Req :
          (JobExists(r) /\ rpc[r] = "set_processing" /\ rpc'[r] # "set_processing"
           /\ (Job(r).status # "processing")')
              => (rpc'[r] = "catch" /\ rerr'[r] # NULL)]_vars

\* C21: when the submit to the external worker fails, the job goes directly
\* from processing to failed, carrying the error of the invoker, and is never
\* polled.
C21_SubmitFailureFails ==
    [][\A r \in Req : JobExists(r) =>
          /\ (rpc[r] \in {"transcribe", "generate"} /\ rpc'[r] = "catch")
                => Job(r).status = "processing"
          /\ (rpc[r] = "catch" /\ rerr[r] \in {"empty_transcription", "generation_failed"}
               /\ rpc'[r] = "done")
                => /\ (Job(r).status = "failed")'
                   /\ (Job(r).error_message)' = rerr[r]]_vars

\* C22: every status transition is stored before the routine takes its next
\* step: the external worker is called only while the stored status is
\* processing, and the polling loop runs only while the stored status is
\* generating with the task handle stored.
C22_WriteThenAdvance ==
    \A r \in Req : JobExists(r) =>
        /\ rpc[r] \in {"transcribe", "generate"} => Job(r).status = "processing"
        /\ rpc[r] = "poll" =>
              /\ video_metadata[r].status = "generating"
              /\ video_metadata[r].task_id # NULL

\* the total order of the stored status on the way to completed
StatusRank(status) ==
    CASE status = "pending" -> 1
      [] status = "processing" -> 2
      [] status = "generating" -> 3
      [] status = "completed" -> 4
      [] OTHER -> 5

\* one change of a stored status that keeps the order
Forward(before, after) ==
    IF after = "failed"
      THEN before \in {"pending", "processing", "generating"}
      ELSE before # "failed" /\ StatusRank(after) > StatusRank(before)

\* C23: the stored status of a job only moves forward in the order pending,
\* processing, generating (video only), completed; failed is entered from a
\* non-terminal status only; no write sets a status the job has left.
C23_StatusMovesForward ==
    [][\A r \in Req :
          /\ (audio_metadata[r].status # "absent" /\ audio_metadata'[r].status # "absent"
               /\ audio_metadata'[r].status # audio_metadata[r].status)
                => /\ Forward(audio_metadata[r].status, audio_metadata'[r].status)
                   /\ audio_metadata'[r].status # "generating"
          /\ (video_metadata[r].status # "absent" /\ video_metadata'[r].status # "absent"
               /\ video_metadata'[r].status # video_metadata[r].status)
                => Forward(video_metadata[r].status, video_metadata'[r].status)]_vars

\* C23 witness: an audio job that reached completed next to a video job that
\* failed on the timeout after it had reached generating.
C23_Witness ==
    \E r1, r2 \in Req :
        /\ audio_metadata[r1].status = "completed" /\ rpc[r1] = "done"
        /\ video_metadata[r2].status = "failed"
        /\ video_metadata[r2].error_message = "timed_out"
        /\ video_metadata[r2].task_id # NULL

\* C24: a poll in which checkVideoStatus throws changes nothing on the job
\* record and does not end the polling loop; the loop is left only with a
\* reported result or when the time budget is used up.
C24_TransientPollFailure ==
    [][\A r \in Req :
          /\ (rpc[r] = "poll" /\ elapsed'[r] = elapsed[r] + 1
               /\ statusResult'[r] = "throws")
                => /\ video_metadata'[r] = video_metadata[r]
                   /\ rpc'[r] = "poll"
          /\ (rpc[r] = "poll" /\ rpc'[r] # "poll")
                => \/ rpc'[r] = "relocate" /\ statusResult'[r] = "SUCCEEDED_with_url"
                   \/ /\ elapsed[r] >= MaxPollRounds
                      /\ rpc'[r] = "catch" /\ rerr'[r] = "timed_out"]_vars

\* C24 witness: the last poll of a generating job threw, the job is still
\* generating and the loop has time left for another round.
C24_Witness ==
    \E r \in Req :
        /\ rpc[r] = "poll" /\ statusResult[r] = "throws"
        /\ video_metadata[r].status = "generating"
        /\ elapsed[r] >= 1 /\ elapsed[r] < MaxPollRounds

\* C25: a video job whose stored status is generating or completed has a
\* non-null task_id.
C25_TaskHandleStored ==
    \A r \in Req :
        video_metadata[r].status \in {"generating", "completed"}
            => video_metadata[r].task_id # NULL

\* C25 witness: a completed video job with its task handle and its video.
C25_Witness ==
    \E r \in Req :
        /\ video_metadata[r].status = "completed"
        /\ video_metadata[r].task_id = "task"
        /\ video_metadata[r].video_url = "owned_url"

\* C26: the balance is changed by the debit of subtractCoins only: every
\* step that changes user_coins is the update of a subtractCoins call, which
\* goes on to write its ledger entry.
C26_OnlyDebitWritesBalance ==
    [][user_coins' # user_coins =>
          \E r \in Req :
              /\ hpc[r] = "sc_check" /\ hpc'[r] = "sc_log"
              /\ user_coins' = seen[r] - coinAmount[r]]_vars

\* C27: when the insert of the job record is rejected after the coins were
\* reserved, the submit request fails with an error, no job record exists
\* for it and no background routine is started, then or later.
C27_InsertFailureStops ==
    [][\A r \in Req :
          /\ (hpc[r] = "insert" /\ hpc'[r] # "insert" /\ ~(JobExists(r))')
                => /\ resp'[r] = "insert_failed" /\ hpc'[r] = "done"
                   /\ rpc'[r] = "none"
          /\ resp'[r] = "insert_failed"
                => (~(JobExists(r))' /\ rpc'[r] = "none" /\ hpc'[r] = "done")]_vars

\* C27 witness: the coins of a submission were debited, its insert was
\* rejected: the request failed with no record and no routine.
C27_Witness ==
    \E r \in Req :
        /\ Submission(r) /\ resp[r] = "insert_failed" /\ debited[r]
        /\ ~JobExists(r) /\ rpc[r] = "none"

\* C28: an edit request changes only audio_name, xml_data or prompt_text of
\* the record, whatever its status; and no step of the submit handlers or of
\* the background routines changes one of these three fields.
C28_EditsKeepTheRest ==
    [][\A r \in Req :
          /\ (~LifecycleStep /\ audio_metadata'[r].status # "absent")
                => \/ audio_metadata'[r] = audio_metadata[r]
                   \/ audio_metadata'[r] =
                         [audio_metadata[r] EXCEPT !.audio_name = "updatedName"]
                   \/ audio_metadata'[r] =
                         [audio_metadata[r] EXCEPT !.xml_data = "xmlData"]
          /\ (~LifecycleStep /\ video_metadata'[r].status # "absent")
                => \/ video_metadata'[r] = video_metadata[r]
                   \/ video_metadata'[r] =
                         [video_metadata[r] EXCEPT !.prompt_text = "updatedPrompt"]
          /\ (LifecycleStep /\ audio_metadata[r].status # "absent")
                => /\ audio_metadata'[r].audio_name = audio_metadata[r].audio_name
                   /\ audio_metadata'[r].xml_data = audio_metadata[r].xml_data
          /\ (LifecycleStep /\ video_metadata[r].status # "absent")
                => video_metadata'[r].prompt_text = video_metadata[r].prompt_text]_vars

\* C28 witness: the name of an audio job was edited while its routine was
\* running; the routine is about to store the transcription.
C28_Witness ==
    \E r \in Req :
        /\ audio_metadata[r].audio_name = "updatedName"
        /\ audio_metadata[r].status = "processing"
        /\ rpc[r] = "save"

\* C29: a subtractCoins call that succeeds was given a positive amount and
\* leaves the stored balance strictly lower than the balance it read.
C29_DebitLowersBalance ==
    [][\A r \in Req :
          (hpc[r] = "sc_check" /\ hpc'[r] = "sc_log")
              => (coinAmount[r] > 0 /\ user_coins' < seen[r])]_vars

\* C30: a record that is not in the store is created by the insert of its
\* submit handler only: after a removal no update of the background routine
\* (or of the start-failure fallback) brings the record back.
C30_RemovedStaysRemoved ==
    [][\A r \in Req :
          /\ (audio_metadata[r].status = "absent" /\ hpc[r] # "insert")
                => audio_metadata'[r] = audio_metadata[r]
          /\ (video_metadata[r].status = "absent" /\ hpc[r] # "insert")
                => video_metadata'[r] = video_metadata[r]]_vars

\* C30 witness: the record of a job was removed while its routine is at the
\* update that stores the result.
C30_Witness ==
    \E r \in Req :
        /\ ops = 1 /\ resp[r] = "pending" /\ Job(r).status = "absent"
        /\ rpc[r] \in {"save", "save_final"}

====
